---- MODULE Spec2Model ----
(***************************************************************************)
(* Model of ai_agent.py: a Streamlit script (re-executed from the top on   *)
(* every user interaction) that loads a table, runs an agent once per      *)
(* distinct value of a chosen column, and offers the results; and of the   *)
(* two tools it hands to the agent, search_web (rate limited by the        *)
(* ratelimit decorators) and query_groq.                                   *)
(*                                                                         *)
(* Spec         the script: user interactions and the steps of one run.    *)
(* ToolSpec     the tools: calls of search_web and query_groq over the     *)
(*              lifetime of one limiter object, with a clock.              *)
(* ToolFairSpec ToolSpec with the fairness of a running thread.            *)
(*                                                                         *)
(* The script runs in one thread, and the user acts between runs.  What   *)
(* the libraries do is modelled at the script's calls of them: st.button   *)
(* is True only in the run its press started, a widget that a run does not *)
(* render loses its value, and the ratelimit decorators keep a counter     *)
(* num_calls and a time last_reset for the function they wrap.             *)
(***************************************************************************)
EXTENDS Integers, Sequences, FiniteSets

VARIABLES
    \* --- widget state, kept by Streamlit across reruns ---
    data_source,      \* st.radio, line 131
    uploaded_file,    \* st.file_uploader, line 137: <<>> or <<file>>
    google_sheet_url, \* st.text_input, line 141: a sequence of characters/chunks
    main_column,      \* st.selectbox, line 156
    prompt_template,  \* st.text_input, line 162: a sequence of tokens
    clicked,          \* the button whose press triggered the current run
    rendered,         \* the buttons the run has put on the page
    \* --- one script run ---
    pc,               \* "idle" | "load" | "controls" | "loop"
    df,               \* line 133: <<>> (None) or <<table>>
    spreadsheet_id,   \* line 134: <<>> (None) or <<segment>>
    entities,         \* df[main_column].unique(), lines 187/189
    idx,              \* loop index of line 189 (0-based)
    extracted_data,   \* line 185
    agentCalls,       \* agent.run invocations of this run, with their outcome
    readCalls,        \* read_google_sheet's remote reads of this run
    updateCalls,      \* update_google_sheet calls of this run
    messages,         \* user-visible messages of this run
    uncaught,         \* the exception that ended this run, or "none"
    shown,            \* the results table the run has put on the page
    pressedRows,      \* the results table that was on the page when the press
                      \* of "Update Google Sheet" started this run, else <<>>
    \* --- the tools ---
    now,              \* the limiter's clock, in seconds
    last_reset,       \* ratelimit: start of the current window
    num_calls,        \* ratelimit: attempts counted in the current window
    spc,              \* "idle" | "check" | "sleeping" | "body"
    wake,             \* end of the current time.sleep
    deferred,         \* the current/last search call met an exhausted quota
    starts,           \* times at which search_web's body started, last PERIOD s
    http,             \* outcome of requests.get for the current/last call
    ret,              \* what the current/last search_web call gave its caller
    completion,       \* outcome of chat.completions.create in the last query_groq
    groqAttempts,     \* chat.completions.create calls made by the last query_groq
    groqRet           \* what the last query_groq call gave its caller

appVars == <<data_source, uploaded_file, google_sheet_url, main_column,
             prompt_template, clicked, rendered, pc, df, spreadsheet_id,
             entities, idx, extracted_data, agentCalls, readCalls,
             updateCalls, messages, uncaught, shown, pressedRows>>
toolVars == <<now, last_reset, num_calls, spc, wake, deferred, starts, http,
              ret, completion, groqAttempts, groqRet>>
vars == <<appVars, toolVars>>

----------------------------------------------------------------------------
(* Bounds *)
MaxRows == 3
\* The clock moves in steps of TickStep seconds while calls may arrive.
TickStep == 30
MaxTime == 90

----------------------------------------------------------------------------
(* Values *)

None == <<>>
Some(x) == <<x>>

\* A cell of a DataFrame: its Python type and its text.
Str(s) == [t |-> "str", v |-> s]
NaN == [t |-> "float", v |-> "nan"]
NoneCell == [t |-> "NoneType", v |-> "None"]
Digits == <<"1", "2", "3", "4", "5", "6">>
IntCell(i) == [t |-> "int", v |-> Digits[i]]

SeqsUpTo(S, n) == UNION {[1..k -> S] : k \in 0..n}

\* df.columns; the selectbox of line 156 starts on the first one.
Columns == <<"Id", "Name">>

\* What pd.read_csv can give: a numeric column, and a text column in which an
\* empty cell is NaN.
CsvTables == {[Id |-> [i \in 1..Len(col) |-> IntCell(i)], Name |-> col] :
                 col \in SeqsUpTo({Str("A"), Str("B"), NaN}, MaxRows)}

\* What read_google_sheet can give: the API sends every cell as text and
\* drops the empty cells that end a row, which the DataFrame fills with None
\* (a sheet whose rows are all short raises instead, and gives no table).
SheetTables == {t \in {[Id |-> [i \in 1..Len(col) |-> Str(Digits[i])], Name |-> col] :
                           col \in SeqsUpTo({Str("A"), Str("B"), NoneCell}, MaxRows)} :
                   t.Name = <<>> \/ \E i \in 1..Len(t.Name) : t.Name[i] # NoneCell}

\* An uploaded file: its bytes parse as CSV or they do not (an empty file).
EmptyTable == [Id |-> <<>>, Name |-> <<>>]
Files == {[parses |-> TRUE, table |-> t] : t \in CsvTables}
            \cup {[parses |-> FALSE, table |-> EmptyTable]}

UrlGood == <<"https:", "/", "/", "docs.google.com", "/", "spreadsheets", "/",
             "d", "/", "SHEETID", "/", "edit">>
UrlNoTail == <<"https:", "/", "/", "docs.google.com", "/", "spreadsheets", "/",
               "d", "/", "SHEETID">>
UrlEmptyId == <<"https:", "/", "/", "docs.google.com", "/", "spreadsheets", "/",
                "d", "/", "/", "edit">>
UrlShort == <<"https:", "/", "/", "docs.google.com", "/", "spreadsheets">>
UrlWord == <<"sheet">>
Urls == {UrlGood, UrlNoTail, UrlEmptyId, UrlShort, UrlWord}

DefaultTemplate == <<"Get the email address of ", "{entity}">>
Templates == {DefaultTemplate, <<"find ", "{entity}">>, <<"find everything">>}

Answers == {"answer"}
AgentOutcomes == {[kind |-> "return", text |-> a] : a \in Answers}
                    \cup {[kind |-> "raise", text |-> "exception"]}

----------------------------------------------------------------------------
(* Pure functions of the script *)

\* str.split("/"): the segments between the "/" characters, each a sequence
\* of chunks (<<>> is the empty string).
RECURSIVE SplitFrom(_, _, _)
SplitFrom(s, i, cur) ==
    IF i > Len(s) THEN <<cur>>
    ELSE IF s[i] = "/" THEN <<cur>> \o SplitFrom(s, i + 1, <<>>)
    ELSE SplitFrom(s, i + 1, Append(cur, s[i]))

Split(s) == SplitFrom(s, 1, <<>>)

\* google_sheet_url.split("/")[5], 0-based: [ok |-> FALSE] is IndexError.
SheetIdSegmentLate(url) ==
    LET parts == Split(url)
    IN  IF Len(parts) >= 7 THEN [ok |-> TRUE, id |-> parts[7]]
        ELSE [ok |-> FALSE, id |-> <<>>]

SheetIdSegment(url) ==
    LET parts == Split(url)
    IN  IF Len(parts) >= 6 THEN [ok |-> TRUE, id |-> parts[6]]
        ELSE [ok |-> FALSE, id |-> <<>>]

\* Series.unique(): the values in order of first appearance.
RECURSIVE UniqueFrom(_, _, _)
UniqueFrom(col, i, seen) ==
    IF i > Len(col) THEN seen
    ELSE IF \E j \in 1..Len(seen) : seen[j] = col[i]
         THEN UniqueFrom(col, i + 1, seen)
         ELSE UniqueFrom(col, i + 1, Append(seen, col[i]))

Unique(col) == UniqueFrom(col, 1, <<>>)

\* str.replace("{entity}", entity) accepts only a str as its argument.
IsStr(entity) == entity.t = "str"

Replace(template, entity) ==
    [i \in 1..Len(template) |->
        IF template[i] = "{entity}" THEN entity.v ELSE template[i]]

FailureMarker == "Error during extraction"

AppendRecordFront(data, rec) == <<rec>> \o data

\* extracted_data.append(...), lines 195 and 201
AppendRecord(data, rec) == Append(data, rec)

Header == <<"Entity", "Extracted Data">>

\* header + extracted_df.values.tolist(), lines 252-254
DataToUpdate(data) ==
    <<Header>> \o [i \in 1..Len(data) |-> <<data[i].Entity, data[i].Data>>]

----------------------------------------------------------------------------
(* The script: user interactions.  Each one reruns the script from line 1. *)

\* A rerun starts: the script's own variables do not survive it.
StartRun(click) ==
    /\ pc' = "load"
    /\ clicked' = click
    /\ df' = None
    /\ spreadsheet_id' = None
    /\ entities' = <<>>
    /\ idx' = 0
    /\ extracted_data' = <<>>
    /\ agentCalls' = <<>>
    /\ readCalls' = <<>>
    /\ updateCalls' = <<>>
    /\ messages' = {}
    /\ uncaught' = "none"
    /\ rendered' = {}
    /\ shown' = <<>>
    /\ UNCHANGED toolVars

ChooseSource(s) ==
    /\ pc = "idle"
    /\ s # data_source
    /\ data_source' = s
    /\ uploaded_file' = None
    /\ google_sheet_url' = <<>>
    /\ pressedRows' = <<>>
    /\ UNCHANGED <<main_column, prompt_template>>
    /\ StartRun("none")

UploadFile(f) ==
    /\ pc = "idle"
    /\ data_source = "Upload CSV"
    /\ uploaded_file # Some(f)
    /\ uploaded_file' = Some(f)
    /\ pressedRows' = <<>>
    /\ UNCHANGED <<data_source, google_sheet_url, main_column, prompt_template>>
    /\ StartRun("none")

EnterUrl(u) ==
    /\ pc = "idle"
    /\ data_source = "Google Sheets"
    /\ google_sheet_url # u
    /\ google_sheet_url' = u
    /\ pressedRows' = <<>>
    /\ UNCHANGED <<data_source, uploaded_file, main_column, prompt_template>>
    /\ StartRun("none")

SelectColumn(c) ==
    /\ pc = "idle"
    /\ "run" \in rendered
    /\ c # main_column
    /\ main_column' = c
    /\ pressedRows' = <<>>
    /\ UNCHANGED <<data_source, uploaded_file, google_sheet_url, prompt_template>>
    /\ StartRun("none")

EditTemplate(t) ==
    /\ pc = "idle"
    /\ "run" \in rendered
    /\ t # prompt_template
    /\ prompt_template' = t
    /\ pressedRows' = <<>>
    /\ UNCHANGED <<data_source, uploaded_file, google_sheet_url, main_column>>
    /\ StartRun("none")

ClickRun ==
    /\ pc = "idle"
    /\ "run" \in rendered
    /\ pressedRows' = <<>>
    /\ UNCHANGED <<data_source, uploaded_file, google_sheet_url, main_column,
                   prompt_template>>
    /\ StartRun("run")

ClickUpdate ==
    /\ pc = "idle"
    /\ "update" \in rendered
    /\ pressedRows' = shown
    /\ UNCHANGED <<data_source, uploaded_file, google_sheet_url, main_column,
                   prompt_template>>
    /\ StartRun("update")

----------------------------------------------------------------------------
(* The script: the steps of one run. *)

\* The run is over.  `buttons` are the buttons it rendered, `table` the results
\* it rendered; a widget it did not render loses its state.
EndRun(buttons, table) ==
    /\ pc' = "idle"
    /\ rendered' = buttons
    /\ shown' = table
    /\ main_column' = IF "run" \in buttons THEN main_column ELSE Columns[1]
    /\ prompt_template' = IF "run" \in buttons THEN prompt_template
                          ELSE DefaultTemplate

\* Lines 133-150.
LoadData ==
    /\ pc = "load"
    /\ UNCHANGED <<data_source, uploaded_file, google_sheet_url, clicked,
                   entities, idx, extracted_data, agentCalls, updateCalls,
                   pressedRows, toolVars>>
    /\ IF data_source = "Upload CSV"
       THEN /\ UNCHANGED <<spreadsheet_id, readCalls, messages>>
            /\ IF uploaded_file = None
               THEN /\ pc' = "controls"
                    /\ UNCHANGED <<df, uncaught, rendered, shown, main_column,
                                   prompt_template>>
               ELSE IF uploaded_file[1].parses
               THEN /\ df' = Some(uploaded_file[1].table)
                    /\ pc' = "controls"
                    /\ UNCHANGED <<uncaught, rendered, shown, main_column,
                                   prompt_template>>
               ELSE \* pd.read_csv raises at line 139, outside any try
                    /\ uncaught' = "EmptyDataError"
                    /\ UNCHANGED df
                    /\ EndRun({}, <<>>)
       ELSE /\ pc' = "controls"
            /\ UNCHANGED <<uncaught, rendered, shown, main_column, prompt_template>>
            /\ IF google_sheet_url = <<>>
               THEN UNCHANGED <<df, spreadsheet_id, readCalls, messages>>
               ELSE LET seg == SheetIdSegment(google_sheet_url)
                    IN  IF ~seg.ok
                        THEN \* IndexError, caught at line 149
                             /\ messages' = messages \cup {"Error processing Google Sheets URL"}
                             /\ UNCHANGED <<df, spreadsheet_id, readCalls>>
                        ELSE IF seg.id = <<>>
                        THEN /\ spreadsheet_id' = Some(seg.id)
                             /\ messages' = messages \cup {"Invalid Google Sheets URL"}
                             /\ UNCHANGED <<df, readCalls>>
                        ELSE /\ spreadsheet_id' = Some(seg.id)
                             /\ readCalls' = Append(readCalls,
                                    [spreadsheetId |-> seg.id, range |-> "Sheet1"])
                             /\ \/ \E t \in SheetTables :
                                      /\ df' = Some(t)
                                      /\ UNCHANGED messages
                                \/ \* read_google_sheet swallows, lines 45-47
                                   /\ df' = None
                                   /\ messages' = messages \cup {"Error reading Google Sheet"}

\* Lines 152-187 and 267-268.
RenderControls ==
    /\ pc = "controls"
    /\ UNCHANGED <<data_source, uploaded_file, google_sheet_url, clicked, df,
                   spreadsheet_id, agentCalls, readCalls, updateCalls, uncaught,
                   pressedRows, toolVars>>
    /\ IF df = None
       THEN /\ messages' = messages \cup {"Please upload a file or provide a valid Google Sheets URL."}
            /\ UNCHANGED <<entities, idx, extracted_data>>
            /\ EndRun({}, <<>>)
       ELSE IF clicked = "run"
       THEN /\ extracted_data' = <<>>
            /\ entities' = Unique(df[1][main_column])
            /\ idx' = 0
            /\ pc' = "loop"
            /\ UNCHANGED <<messages, rendered, shown, main_column, prompt_template>>
       ELSE /\ UNCHANGED <<messages, entities, idx, extracted_data>>
            /\ EndRun({"run"}, <<>>)

\* One iteration of the loop of lines 189-207.
ExtractEntity ==
    /\ pc = "loop"
    /\ idx < Len(entities)
    /\ UNCHANGED <<data_source, uploaded_file, google_sheet_url, clicked, df,
                   spreadsheet_id, entities, readCalls, updateCalls, pressedRows,
                   toolVars>>
    /\ LET entity == entities[idx + 1]
       IN  IF ~IsStr(entity)
           THEN \* str.replace raises TypeError at line 190, before the try
                /\ uncaught' = "TypeError"
                /\ UNCHANGED <<idx, extracted_data, agentCalls, messages>>
                /\ EndRun({"run"}, <<>>)
           ELSE \E out \in AgentOutcomes :
                /\ agentCalls' = Append(agentCalls,
                       [prompt |-> Replace(prompt_template, entity),
                        outcome |-> out.kind])
                /\ extracted_data' = AppendRecord(extracted_data,
                       [Entity |-> entity,
                        Data |-> IF out.kind = "return" THEN out.text
                                 ELSE FailureMarker])
                /\ messages' = IF out.kind = "return" THEN messages
                               ELSE messages \cup {"Error processing entity"}
                /\ idx' = idx + 1
                /\ UNCHANGED <<pc, uncaught, rendered, shown, main_column,
                               prompt_template>>

\* Lines 209-266, after the loop.
Display ==
    /\ pc = "loop"
    /\ idx = Len(entities)
    /\ UNCHANGED <<data_source, uploaded_file, google_sheet_url, clicked, df,
                   spreadsheet_id, entities, idx, extracted_data, agentCalls,
                   readCalls, uncaught, pressedRows, toolVars>>
    /\ IF extracted_data = <<>>
       THEN /\ messages' = messages \cup {"No extracted data to display."}
            /\ UNCHANGED updateCalls
            /\ EndRun({"run"}, <<>>)
       ELSE IF data_source = "Google Sheets" /\ spreadsheet_id # None
                /\ spreadsheet_id[1] # <<>>
       THEN /\ EndRun({"run", "update"}, extracted_data)
            /\ IF clicked = "update"
               THEN /\ updateCalls' = Append(updateCalls,
                           [spreadsheetId |-> spreadsheet_id[1],
                            range |-> "Sheet1!C1",
                            data |-> DataToUpdate(extracted_data)])
                    /\ \/ messages' = messages \cup {"Google Sheet updated successfully!"}
                       \/ \* update_google_sheet re-raises (line 62); caught at 263
                          messages' = messages \cup {"Error updating Google Sheet",
                                                     "Failed to update Google Sheet"}
               ELSE UNCHANGED <<updateCalls, messages>>
       ELSE /\ UNCHANGED <<updateCalls, messages>>
            /\ EndRun({"run"}, extracted_data)

AppInit ==
    /\ data_source = "Upload CSV"
    /\ uploaded_file = None
    /\ google_sheet_url = <<>>
    /\ main_column = Columns[1]
    /\ prompt_template = DefaultTemplate
    /\ clicked = "none"
    /\ rendered = {}
    /\ pc = "load"
    /\ df = None
    /\ spreadsheet_id = None
    /\ entities = <<>>
    /\ idx = 0
    /\ extracted_data = <<>>
    /\ agentCalls = <<>>
    /\ readCalls = <<>>
    /\ updateCalls = <<>>
    /\ messages = {}
    /\ uncaught = "none"
    /\ shown = <<>>
    /\ pressedRows = <<>>

Next ==
    \/ \E s \in {"Upload CSV", "Google Sheets"} : ChooseSource(s)
    \/ \E f \in Files : UploadFile(f)
    \/ \E u \in Urls : EnterUrl(u)
    \/ \E c \in {Columns[i] : i \in 1..Len(Columns)} : SelectColumn(c)
    \/ \E t \in Templates : EditTemplate(t)
    \/ ClickRun
    \/ ClickUpdate
    \/ LoadData
    \/ RenderControls
    \/ ExtractEntity
    \/ Display

----------------------------------------------------------------------------
(* The tools.  search_web is limits(calls=MAX_CALLS, period=PERIOD) inside  *)
(* sleep_and_retry: limits counts the attempts since last_reset, starts a   *)
(* new count once PERIOD seconds have passed, and raises RateLimitException *)
(* with the time left when the count exceeds MAX_CALLS; sleep_and_retry     *)
(* catches it, sleeps that long and calls again.                            *)

MAX_CALLS == 15
PERIOD == 60

NoCompletion == [kind |-> "none", choices |-> <<>>]
NoHttp == [kind |-> "none", status |-> 0, body |-> "none"]
\* requests.get raises, or answers with a status and a body: JSON holding
\* organic results, JSON without that key, or text that is not JSON.
HttpOutcomes ==
    {[kind |-> "exception", status |-> 0, body |-> "none"]}
       \cup {[kind |-> "response", status |-> st, body |-> b] :
                st \in {200, 429, 500},
                b \in {"organic_results", "no_such_key", "not_json"}}

Results == <<"result">>
NoRet == [kind |-> "none", value |-> <<>>]
Return(v) == [kind |-> "return", value |-> v]
Raise(e) == [kind |-> "raise", value |-> <<e>>]

\* The body of search_web without its try/except.
SearchWebBodyNoCatch(o) ==
    IF o.kind = "exception" THEN Raise("RequestException")
    ELSE IF o.status = 200
         THEN IF o.body = "not_json" THEN Raise("JSONDecodeError")
              ELSE IF o.body = "organic_results" THEN Return(Results)
              ELSE Return(<<>>)
         ELSE Return(<<>>)

\* The body of search_web, lines 73-87, on the outcome of requests.get.
SearchWebBody(o) ==
    IF o.kind = "exception" THEN Return(<<>>)
    ELSE IF o.status = 200
         THEN IF o.body = "not_json" THEN Return(<<>>)  \* json() raises: line 85
              ELSE IF o.body = "organic_results" THEN Return(Results)
              ELSE Return(<<>>)                          \* .get(key, [])
         ELSE Return(<<>>)

\* A RateLimitException that nothing catches.
RateLimitPropagates(period_remaining) ==
    [spc |-> "idle", wake |-> wake, ret |-> Raise("RateLimitException")]

\* sleep_and_retry, line 70: catch RateLimitException, time.sleep for the
\* rest of the window, call again.
SleepAndRetry(period_remaining) ==
    [spc |-> "sleeping", wake |-> now + period_remaining, ret |-> NoRet]

\* starts, without those PERIOD seconds or more before time t.
Recent(t) == SelectSeq(starts, LAMBDA x : x > t - PERIOD)

\* The agent calls the search tool.
CallSearch ==
    /\ spc = "idle"
    /\ now <= MaxTime
    /\ spc' = "check"
    /\ deferred' = FALSE
    /\ http' = NoHttp
    /\ ret' = NoRet
    /\ completion' = NoCompletion
    /\ groqAttempts' = 0
    /\ groqRet' = "none"
    /\ UNCHANGED <<now, last_reset, num_calls, wake, starts, appVars>>

\* The wrapper of limits(calls=MAX_CALLS, period=PERIOD), line 71: a new
\* window once PERIOD has passed since last_reset, then count the attempt and
\* raise RateLimitException when the count exceeds MAX_CALLS.
LimitsCheck ==
    /\ spc = "check"
    /\ LET period_remaining == PERIOD - (now - last_reset)
           reset == period_remaining <= 0
           n == (IF reset THEN 0 ELSE num_calls) + 1
       IN  /\ num_calls' = n
           /\ last_reset' = IF reset THEN now ELSE last_reset
           /\ IF n > MAX_CALLS
              THEN LET r == SleepAndRetry(period_remaining)
                   IN  /\ spc' = r.spc
                       /\ wake' = r.wake
                       /\ ret' = r.ret
                       /\ deferred' = TRUE
                       /\ UNCHANGED starts
              ELSE /\ spc' = "body"
                   /\ starts' = Append(starts, now)
                   /\ UNCHANGED <<wake, ret, deferred>>
    /\ UNCHANGED <<now, http, completion, groqAttempts, groqRet, appVars>>

\* time.sleep(period_remaining) returns, on time or late.
Sleep ==
    /\ spc = "sleeping"
    /\ \E late \in {0, TickStep} : now' = wake + late
    /\ starts' = Recent(now')
    /\ spc' = "check"
    /\ UNCHANGED <<last_reset, num_calls, wake, deferred, http, ret, completion,
                   groqAttempts, groqRet, appVars>>

\* requests.get ends, and search_web returns.
HttpResponse(o) ==
    /\ spc = "body"
    /\ http' = o
    /\ ret' = SearchWebBody(o)
    /\ spc' = "idle"
    /\ UNCHANGED <<now, last_reset, num_calls, wake, deferred, starts, completion,
                   groqAttempts, groqRet, appVars>>

\* Time passes, between calls or while a request is in flight.
Tick ==
    /\ spc \in {"idle", "body"}
    /\ now + TickStep <= MaxTime
    /\ now' = now + TickStep
    /\ starts' = Recent(now')
    /\ UNCHANGED <<last_reset, num_calls, spc, wake, deferred, http, ret,
                   completion, groqAttempts, groqRet, appVars>>

Texts == {"text1", "text2"}
\* chat.completions.create raises, or returns a completion with its choices.
GroqOutcomes ==
    {[kind |-> "exception", choices |-> <<>>]}
       \cup {[kind |-> "completion", choices |-> c] :
                c \in SeqsUpTo(Texts, 2) \ {<<>>}}

\* query_groq that lets the exception through.
QueryGroqNoCatch(o) ==
    IF o.kind = "exception" THEN [attempts |-> 1, ret |-> "raise"]
    ELSE [attempts |-> 1, ret |-> o.choices[1]]

\* query_groq, lines 90-111, on the outcome of its one create() call.
QueryGroqResult(o) ==
    IF o.kind = "exception" THEN [attempts |-> 1, ret |-> "Error"]
    ELSE [attempts |-> 1, ret |-> o.choices[1]]

\* The agent calls the model-query tool.
QueryGroq(o) ==
    /\ spc = "idle"
    /\ completion' = o
    /\ groqAttempts' = QueryGroqResult(o).attempts
    /\ groqRet' = QueryGroqResult(o).ret
    /\ deferred' = FALSE
    /\ http' = NoHttp
    /\ ret' = NoRet
    /\ UNCHANGED <<now, last_reset, num_calls, spc, wake, starts, appVars>>

ToolInit ==
    /\ now = 0
    /\ last_reset = 0
    /\ num_calls = 0
    /\ spc = "idle"
    /\ wake = 0
    /\ deferred = FALSE
    /\ starts = <<>>
    /\ http = NoHttp
    /\ ret = NoRet
    /\ completion = NoCompletion
    /\ groqAttempts = 0
    /\ groqRet = "none"

ToolNext ==
    \/ CallSearch
    \/ LimitsCheck
    \/ Sleep
    \/ \E o \in HttpOutcomes : HttpResponse(o)
    \/ Tick
    \/ \E o \in GroqOutcomes : QueryGroq(o)

Init == AppInit /\ ToolInit

Spec == Init /\ [][Next]_vars

ToolSpec == Init /\ [][ToolNext]_vars

\* A running thread takes its next step, a sleep ends, and the HTTP client
\* comes back with an answer or an exception.
ToolFairSpec ==
    /\ ToolSpec
    /\ WF_vars(LimitsCheck)
    /\ WF_vars(Sleep)
    /\ WF_vars(\E o \in HttpOutcomes : HttpResponse(o))

----------------------------------------------------------------------------
(* Claims *)

\* The selected column of the table the run has loaded.
SelectedColumn == df[1][main_column]

\* The run that "Run Data Extraction" started has ended.
BatchEnded == pc = "idle" /\ clicked = "run" /\ df # None

\* C1: at most MAX_CALLS bodies of search_web start within any PERIOD
\* seconds, whatever the timing of the calls (starts holds the starts of the
\* last PERIOD seconds).
C1_SlidingWindow == Len(starts) <= MAX_CALLS

\* C2: when agent.run raised for an entity, that entity's record carries the
\* failure marker, and once the run has ended every value of the selected
\* column has a record.
C2_FailureIsolated ==
    (BatchEnded /\ \E i \in 1..Len(agentCalls) : agentCalls[i].outcome = "raise")
    => /\ \A i \in 1..Len(agentCalls) :
             agentCalls[i].outcome = "raise"
             => \E j \in 1..Len(extracted_data) :
                   extracted_data[j] = [Entity |-> entities[i], Data |-> FailureMarker]
       /\ \A k \in 1..Len(SelectedColumn) :
             \E j \in 1..Len(extracted_data) :
                extracted_data[j].Entity = SelectedColumn[k]

\* C3: once the run started by "Run Data Extraction" has ended, the agent was
\* invoked once per distinct value of the selected column and the output holds
\* one record per distinct value, whatever the cells are.
C3_OnePerDistinct ==
    BatchEnded
    => LET distinct == {SelectedColumn[k] : k \in 1..Len(SelectedColumn)}
       IN  /\ Len(extracted_data) = Cardinality(distinct)
           /\ Len(agentCalls) = Cardinality(distinct)
           /\ {extracted_data[j].Entity : j \in 1..Len(extracted_data)} = distinct

\* The rows of a column at which a value appears for the first time.
FirstIdx(col) == {k \in 1..Len(col) : \A j \in 1..(k - 1) : col[j] # col[k]}

C4_Ordered ==
    \A i \in 1..Len(extracted_data) :
       \E k \in FirstIdx(SelectedColumn) :
          /\ extracted_data[i].Entity = SelectedColumn[k]
          /\ Cardinality({j \in FirstIdx(SelectedColumn) : j < k}) = i - 1

C4_AppendOnly ==
    \/ extracted_data' = extracted_data
    \/ /\ Len(extracted_data') = Len(extracted_data) + 1
       /\ SubSeq(extracted_data', 1, Len(extracted_data)) = extracted_data
    \/ pc' = "load" /\ extracted_data' = <<>>

\* C4: the i-th record's entity is the i-th distinct value of the selected
\* column in order of first appearance, whether the agent returned or raised,
\* and within a run the records only grow at the end: none is changed, moved
\* or removed.
C4_FirstOccurrenceOrder == [](C4_Ordered) /\ [][C4_AppendOnly]_vars

\* A batch over a column with a repeated value has ended with two records, one
\* of them a failure.
C4_Witness ==
    /\ BatchEnded
    /\ uncaught = "none"
    /\ Len(extracted_data) = 2
    /\ Len(SelectedColumn) = 3
    /\ extracted_data[1].Data = FailureMarker
    /\ extracted_data[2].Data # FailureMarker

\* C5: a search_web call that meets an exhausted quota never ends in a
\* rate-limit error; it sleeps, and it is then dispatched and returns a result
\* to its caller.
C5_DeferredNotDropped ==
    /\ [](ret # Raise("RateLimitException"))
    /\ (spc = "sleeping") ~> (spc = "idle" /\ deferred /\ ret.kind = "return")

\* A deferred call has come back with a result of a 200 response.
C5_Witness ==
    spc = "idle" /\ deferred /\ ret.kind = "return" /\ http.status = 200

\* C6: query_groq makes one create() call; when it raises, query_groq returns
\* "Error" and raises nothing; otherwise it returns the first choice's text.
C6_GroqError ==
    completion.kind # "none"
    => /\ groqAttempts = 1
       /\ completion.kind = "exception" => groqRet = "Error"
       /\ completion.kind = "completion" => groqRet = Head(completion.choices)

\* query_groq has turned an exception into "Error".
C6_Witness == completion.kind = "exception" /\ groqRet = "Error"

\* C7: search_web never raises; it returns the organic results of a 200
\* response (none when the body has none or is not JSON) and the empty list
\* on a transport exception or another status.
C7_SearchNeverRaises ==
    /\ ret.kind # "raise"
    /\ (spc = "idle" /\ http.kind # "none")
       => ret = Return(IF http.kind = "response" /\ http.status = 200
                          /\ http.body = "organic_results"
                       THEN Results ELSE <<>>)

\* search_web has turned a transport exception into the empty list.
C7_Witness == spc = "idle" /\ http.kind = "exception" /\ ret = Return(<<>>)

NumSlashes(u) == Cardinality({i \in 1..Len(u) : u[i] = "/"})

\* The URL has a sixth "/"-separated segment and it is not empty: its fifth
\* "/" is followed by something other than a "/".
HasSheetId(u) ==
    \E p \in 1..(Len(u) - 1) :
       /\ u[p] = "/"
       /\ Cardinality({i \in 1..(p - 1) : u[i] = "/"}) = 4
       /\ u[p + 1] # "/"

\* C8: the sixth "/"-separated segment is the sheet identifier, SHEETID for
\* the documented URL; with fewer than six segments or an empty sixth one no
\* exception escapes, no read is attempted, the table stays unloaded and the
\* extraction controls are not offered.
C8_SheetUrl ==
    (data_source = "Google Sheets" /\ pc # "load" /\ google_sheet_url # <<>>)
    => /\ google_sheet_url = UrlGood
          => /\ spreadsheet_id = Some(<<"SHEETID">>)
             /\ readCalls = <<[spreadsheetId |-> <<"SHEETID">>, range |-> "Sheet1"]>>
       /\ HasSheetId(google_sheet_url) => Len(readCalls) = 1
       /\ ~HasSheetId(google_sheet_url)
          => /\ uncaught = "none"
             /\ readCalls = <<>>
             /\ df = None
             /\ pc \in {"controls", "idle"}
             /\ pc = "idle" => rendered = {}
             /\ NumSlashes(google_sheet_url) < 5
                => "Error processing Google Sheets URL" \in messages

\* A run on a URL of fewer than six segments has ended with the message.
C8_Witness ==
    /\ pc = "idle"
    /\ google_sheet_url = UrlShort
    /\ "Error processing Google Sheets URL" \in messages
    /\ "Please upload a file or provide a valid Google Sheets URL." \in messages

\* C9: the run that a press of "Update Google Sheet" starts calls
\* update_google_sheet once, with range "Sheet1!C1" and the header row
\* followed by the displayed records; and no other run calls it.
C9_UpdateOnPress ==
    /\ (pc = "idle" /\ clicked = "update")
       => /\ Len(updateCalls) = 1
          /\ updateCalls[1].range = "Sheet1!C1"
          /\ updateCalls[1].data = DataToUpdate(pressedRows)
    /\ clicked # "update" => updateCalls = <<>>

\* C10: no exception reaches the top level of the script.
C10_NoUncaught == uncaught = "none"

====
